---- MODULE Spec2Model ----
\* Model of the GCP IAM log connector
\* (Solutions/GoogleCloudPlatformIAM/Data Connectors/AzureFunctionGCPIAM/main.py):
\* the timer-triggered run that reads the persisted cursor, queries the log
\* source batch by batch and page by page, sends every entry to the buffering
\* sink connector and posts the running maximum timestamp to the state store.
EXTENDS Integers, Sequences, FiniteSets, TLC

\* ------------------------------------------------------------------ bounds
\* datetime resolution: ticks per second (10^6 microseconds in the program);
\* at least 3, so that two instants can differ by more than one tick and by
\* less than one second
TicksPerSec == 3
\* events in the log source
MaxEvents == 3
\* distinct event timestamps (consecutive ticks)
NumTimes == 2
\* timer triggers
MaxRuns == 2
\* queue_size of the connector and page_size of the query are drawn from
\* 1..MaxQueueSize and 1..MaxPageSize (3000 and 1000 in the program)
MaxQueueSize == 2
MaxPageSize == 2
\* get_last_ts is applied to stored cursors whose age differs from the
\* maximum search period by up to MaxSkew ticks either way
MaxSkew == 4
\* get_recource_names() returns up to MaxResources resource names
MaxResources == 25

\* ------------------------------------------------------- program constants
SCRIPT_EXECUTION_INTERVAL_MINUTES == 5
MAX_PERIOD_MINUTES == 60 * 24 * 7
MAX_SCRIPT_EXEC_TIME_MINUTES == 5
batch_size == 10

\* None, and the empty string: both are falsy in the program
None == << >>

Procs == {1, 2}

\* ------------------------------------------------------------- time values
Minute == 60 * TicksPerSec

\* the wall clock at the first timer trigger
NowInit == SCRIPT_EXECUTION_INTERVAL_MINUTES * Minute

\* int(MAX_SCRIPT_EXEC_TIME_MINUTES * 60 * 0.85)
max_duration == (MAX_SCRIPT_EXEC_TIME_MINUTES * 60 * 85) \div 100

\* wall-clock readings the model distinguishes: the deployment instant, one
\* past the time budget, one past the maximum search period, and both
BudgetJump == (max_duration + 1) * TicksPerSec
StaleJump == (MAX_PERIOD_MINUTES + 1) * Minute
ClockValues == {NowInit, NowInit + BudgetJump, NowInit + StaleJump,
                NowInit + StaleJump + BudgetJump}

\* timestamps of the events in the log source
EventTimes == {NowInit - SCRIPT_EXECUTION_INTERVAL_MINUTES * Minute + i : i \in 1..NumTimes}

\* ---------------------------------------------------- timestamps as strings
\* datetime.isoformat() of a UTC datetime: "<date>T<time>+00:00" when the
\* microsecond field is zero and "<date>T<time>.<ffffff>+00:00" otherwise.
\* The fixed-width date and time are the whole seconds, the optional
\* fraction a second element.
isoformat(t) ==
    IF t % TicksPerSec = 0 THEN << t \div TicksPerSec >>
    ELSE << t \div TicksPerSec, t % TicksPerSec >>

\* dateutil.parser.parse of such a string
parse_date(s) ==
    IF Len(s) = 1 THEN s[1] * TicksPerSec ELSE s[1] * TicksPerSec + s[2]

\* str.__gt__: the strings are compared character by character; after equal
\* seconds "+" (no fraction) sorts below "." (a fraction)
StrGreater(a, b) ==
    \/ a[1] > b[1]
    \/ /\ a[1] = b[1]
       /\ \/ Len(a) = 2 /\ Len(b) = 1
          \/ Len(a) = 2 /\ Len(b) = 2 /\ a[2] > b[2]

Min(a, b) == IF a < b THEN a ELSE b

\* ------------------------------------------------------------ get_last_ts
\* The window start computed from the stored cursor (None when the store is
\* empty) and the wall clock n.  timedelta.days * 86400 + timedelta.seconds
\* is the difference in whole seconds, rounded down.
\* get_last_ts without the microsecond added to a stored cursor; get_last_ts
\* that takes the search period for exceeded when it is just reached
get_last_ts_AtLimit(stored, n) ==
    LET last_ts == IF stored # None THEN parse_date(stored)
                   ELSE n - SCRIPT_EXECUTION_INTERVAL_MINUTES * Minute
        diff_seconds == (n - last_ts) \div TicksPerSec
    IN  IF diff_seconds >= MAX_PERIOD_MINUTES * 60
        THEN isoformat(n - MAX_PERIOD_MINUTES * Minute)
        ELSE isoformat(last_ts + 1)

get_last_ts_NoTick(stored, n) ==
    LET last_ts == IF stored # None THEN parse_date(stored)
                   ELSE n - SCRIPT_EXECUTION_INTERVAL_MINUTES * Minute
        diff_seconds == (n - last_ts) \div TicksPerSec
    IN  IF diff_seconds > MAX_PERIOD_MINUTES * 60
        THEN isoformat(n - MAX_PERIOD_MINUTES * Minute)
        ELSE isoformat(last_ts)

get_last_ts(stored, n) ==
    LET last_ts == IF stored # None THEN parse_date(stored)
                   ELSE n - SCRIPT_EXECUTION_INTERVAL_MINUTES * Minute
        diff_seconds == (n - last_ts) \div TicksPerSec
    IN  IF diff_seconds > MAX_PERIOD_MINUTES * 60
        THEN isoformat(n - MAX_PERIOD_MINUTES * Minute)
        ELSE isoformat(last_ts + 1)

\* ------------------------------------------ check_if_script_runs_too_long
check_if_script_runs_too_long(start, n) ==
    LET duration == (n \div TicksPerSec) - start
    IN  duration > max_duration

\* --------------------------------------------------------- resource batches
\* slices that end one element late, so that consecutive batches overlap
resource_batches_Overlapping(res) ==
    [k \in 1..((Len(res) + batch_size - 1) \div batch_size) |->
        SubSeq(res, (k - 1) * batch_size + 1, Min(k * batch_size + 1, Len(res)))]

\* [resources[i:i+batch_size] for i in range(0, len(resources), batch_size)]
resource_batches(res) ==
    [k \in 1..((Len(res) + batch_size - 1) \div batch_size) |->
        SubSeq(res, (k - 1) * batch_size + 1, Min(k * batch_size, Len(res)))]

Range(s) == {s[i] : i \in 1..Len(s)}

\* ------------------------------------------------------------- log source
\* The ids (positions in the log, which is kept in timestamp order) of the
\* entries that match a batch filter: resource of the batch, timestamp >= the
\* window start; order_by='timestamp'.
Matching(lg, batch, start) ==
    LET Test(i) == /\ lg[i].res \in Range(batch)
                   /\ lg[i].ts >= parse_date(start)
    IN  SelectSeq([i \in 1..Len(lg) |-> i], Test)

\* list_entries(filter_, order_by, page_size, page_token): one page of
\* entries and the token of the next page; the token is the number of
\* entries before the page, 0 when there is none (page_token=None).
PageEntries(m, token, psize) == SubSeq(m, token + 1, Min(token + psize, Len(m)))
NextPageToken(m, token, psize) == IF token + psize < Len(m) THEN token + psize ELSE 0

\* ------------------------------------------------------------------ state
VARIABLES
    log,          \* the log source: a sequence of entries [res, ts] in timestamp order
    resources,    \* get_recource_names(): the monitored resource descriptors
    queue_size,   \* AzureSentinelConnector(queue_size=...)
    page_size,    \* page_size of list_entries
    now,          \* the wall clock, in ticks
    cursor,       \* the value held by the StateManager (None when empty)
    delivered,    \* ids of the entries the sink has received
    runs,         \* timer triggers so far
    first_start,  \* the window start of the first run (None before it)
    committed,    \* every value ever posted to the StateManager
    overlapped,   \* main() has been invoked while another invocation was active
    run           \* the invocations of main(): per process, its local variables

vars == << log, resources, queue_size, page_size, now, cursor, delivered,
           runs, first_start, committed, overlapped, run >>

config == << log, resources, queue_size, page_size >>

Active == {"fetch", "send", "commit", "batchEnd", "release"}
Ended == {"idle", "done", "failed", "crashed"}

\* the local variables of main() before the function is invoked
IdleRun ==
    [pc |-> "idle",            \* where the invocation is
     start_ts |-> 0,           \* line 50
     read |-> None,            \* what state_manager.get() returned (line 193)
     filt |-> None,            \* the window start of the filter (lines 58, 103)
     batch |-> 0,              \* index of resource_batch (line 118)
     page_token |-> 0,         \* line 124, 150
     entry |-> 0,              \* index of entry in results (line 130)
     queue |-> << >>,          \* the events pending in the connector
     last_max_ts |-> None,     \* line 116
     exc |-> FALSE,            \* an exception is propagating
     after |-> "idle",         \* "crashed" when the previous invocation was killed
     sent |-> {},              \* entries passed to sentinel.send
     flushed |-> {},           \* entries this invocation delivered to the sink
     fetches |-> 0,            \* calls of list_entries
     auto |-> 0,               \* flushes made by sentinel.send
     final |-> 0,              \* flushes of a remainder made at release
     commits |-> << >>,        \* values posted, in order
     too_long |-> FALSE,       \* a time check has returned true
     release_raised |-> FALSE] \* the flush at release raised

\* resources on which the log holds entries: the first resource of the first
\* and of the second batch
EventResources(n) == {r \in {1, batch_size + 1} : r <= n}
ResourceCounts == {1, batch_size + 1}

Sorted(s) ==
    \A i \in 1..(Len(s) - 1) :
        \/ s[i].ts < s[i + 1].ts
        \/ s[i].ts = s[i + 1].ts /\ s[i].res <= s[i + 1].res

Logs(n) ==
    {s \in UNION {[1..k -> [res : EventResources(n), ts : EventTimes]] : k \in 0..MaxEvents} :
        Sorted(s)}

Init ==
    /\ \E n \in ResourceCounts :
          /\ resources = [i \in 1..n |-> i]
          /\ log \in Logs(n)
    /\ queue_size \in 1..MaxQueueSize
    /\ page_size \in 1..MaxPageSize
    /\ now = NowInit
    /\ cursor = None
    /\ delivered = {}
    /\ runs = 0
    /\ first_start = None
    /\ committed = {}
    /\ overlapped = FALSE
    /\ run = [p \in Procs |-> IdleRun]

\* --------------------------------------------- AzureSentinelConnector
\* send(event): append; when the pending count reaches queue_size the
\* queue is flushed to the sink and cleared.  The result is the queue after
\* the call and the events handed to the sink.
sentinel_send(q, e, qsize) ==
    IF Len(q) + 1 >= qsize
    THEN [queue |-> << >>, out |-> Append(q, e)]
    ELSE [queue |-> Append(q, e), out |-> << >>]

\* is_empty(): no event is pending
is_empty(q) == q = << >>

\* __exit__: flush the remainder
sentinel_exit(q) == [queue |-> << >>, out |-> q]

\* ------------------------------------------------------------ StateManager
\* post(value) overwrites the stored value; get() returns it
post(stored, value) == value
get(stored) == stored

\* ----------------------------------------------------- control flow of main
NumBatches == Len(resource_batches(resources))

\* the entries of the page the run r is at, and the token after it
Results(r) ==
    PageEntries(Matching(log, resource_batches(resources)[r.batch], r.filt),
                r.page_token, page_size)
next_page_token(r) ==
    NextPageToken(Matching(log, resource_batches(resources)[r.batch], r.filt),
                  r.page_token, page_size)

\* variant of AfterPage: the page token is not replaced by the next one, so
\* that the same page is fetched again
AfterPageSameToken(r) ==
    IF next_page_token(r) = 0
    THEN [r EXCEPT !.pc = "batchEnd"]
    ELSE [r EXCEPT !.entry = 1, !.pc = "fetch"]

\* lines 146-150: after the for loop over a page, leave the while loop when
\* there is no next page token, else fetch the next page
AfterPage(r) ==
    IF next_page_token(r) = 0
    THEN [r EXCEPT !.pc = "batchEnd"]
    ELSE [r EXCEPT !.page_token = next_page_token(r), !.entry = 1, !.pc = "fetch"]

\* line 130: the next entry of the page, if any
NextEntry(r) ==
    IF r.entry < Len(Results(r))
    THEN [r EXCEPT !.entry = @ + 1, !.pc = "send"]
    ELSE AfterPage(r)

\* lines 141-143: break when the script runs too long; the break leaves the
\* innermost loop, the for loop over the entries of the page
AfterCheckInPage(r, long) ==
    IF long THEN AfterPage(r) ELSE NextEntry(r)

\* line 116: last_max_ts is set to None once, before the loop over the
\* batches; the value a batch starts with is the one the previous batch left
\* last_max_ts set to None at the start of every batch
MaxResetPerBatch(last_max) == None

MaxAtBatchStart(last_max) == last_max

\* line 118: the next resource batch, if any; page_token = None (line 124)
NextBatch(r) ==
    IF r.batch < NumBatches
    THEN [r EXCEPT !.batch = @ + 1, !.page_token = 0, !.entry = 1, !.pc = "fetch",
                   !.last_max_ts = MaxAtBatchStart(@)]
    ELSE [r EXCEPT !.pc = "release"]

\* lines 156-158: break out of the loop over the batches when the script
\* runs too long
AfterCheckBatch(r, long) ==
    IF long THEN [r EXCEPT !.pc = "release"] ELSE NextBatch(r)

\* lines 135-136: the running maximum, compared as strings
\* the running maximum never replaced once set
NewMaxKeepsFirst(last_max, ts) ==
    IF last_max = None THEN ts ELSE last_max

NewMax(last_max, ts) ==
    IF last_max = None \/ StrGreater(ts, last_max) THEN ts ELSE last_max

\* ---------------------------------------------------------------- actions
\* The timer trigger invokes main(): lines 50-58 and 107-118.
StartRun(p) ==
    /\ run[p].pc \in Ended
    /\ runs < MaxRuns
    /\ LET start == get_last_ts(get(cursor), now)
           r0 == [IdleRun EXCEPT !.start_ts = now \div TicksPerSec,
                                 !.read = get(cursor),
                                 !.filt = start,
                                 !.after = IF run[p].pc = "crashed" THEN "crashed" ELSE "idle"]
       IN  /\ run' = [run EXCEPT ![p] = NextBatch(r0)]
           /\ first_start' = IF first_start = None THEN start ELSE first_start
    /\ runs' = runs + 1
    /\ overlapped' = (overlapped \/ \E o \in Procs \ {p} : run[o].pc \in Active)
    /\ UNCHANGED << config, now, cursor, delivered, committed >>

\* line 127: list_entries returns a page
Fetch(p) ==
    LET r == run[p]
        r1 == [r EXCEPT !.fetches = @ + 1]
    IN
    /\ r.pc = "fetch"
    /\ run' = [run EXCEPT ![p] = IF Results(r) = << >> THEN AfterPage(r1)
                                 ELSE [r1 EXCEPT !.pc = "send"]]
    /\ UNCHANGED << config, now, cursor, delivered, runs, first_start, committed,
                    overlapped >>

\* variants of SourceRaises: the exception bypasses the release of the
\* connector; the call is tried again within the run
SourceRaisesNoRelease(p) ==
    LET r == run[p] IN
    /\ r.pc = "fetch"
    /\ run' = [run EXCEPT ![p] = [r EXCEPT !.fetches = @ + 1, !.exc = TRUE,
                                           !.pc = "failed"]]
    /\ UNCHANGED << config, now, cursor, delivered, runs, first_start, committed,
                    overlapped >>

SourceRaisesRetry(p) ==
    LET r == run[p] IN
    /\ r.pc = "fetch"
    /\ ~r.exc
    /\ run' = [run EXCEPT ![p] = [r EXCEPT !.fetches = @ + 1, !.exc = TRUE]]
    /\ UNCHANGED << config, now, cursor, delivered, runs, first_start, committed,
                    overlapped >>

\* lines 117, 127: list_entries raises; the exception leaves the with block,
\* whose exit releases the connector
SourceRaises(p) ==
    LET r == run[p] IN
    /\ r.pc = "fetch"
    /\ run' = [run EXCEPT ![p] = [r EXCEPT !.fetches = @ + 1, !.exc = TRUE,
                                           !.pc = "release"]]
    /\ UNCHANGED << config, now, cursor, delivered, runs, first_start, committed,
                    overlapped >>

\* variant of Send: the timestamp of the entry becomes the lower bound of
\* the queries that follow (the filter rebuilt from last_ts of line 134)
SendMovesFilter(p) ==
    LET r == run[p]
        e == Results(r)[r.entry]
        s == sentinel_send(r.queue, e, queue_size)
        r1 == [r EXCEPT !.queue = s.queue,
                        !.sent = @ \cup {e},
                        !.flushed = @ \cup Range(s.out),
                        !.auto = IF s.out # << >> THEN @ + 1 ELSE @,
                        !.last_max_ts = NewMax(@, isoformat(log[e].ts)),
                        !.filt = isoformat(log[e].ts)]
    IN
    /\ r.pc = "send"
    /\ run' = [run EXCEPT ![p] = IF is_empty(r1.queue) THEN [r1 EXCEPT !.pc = "commit"]
                                 ELSE NextEntry(r1)]
    /\ delivered' = delivered \cup Range(s.out)
    /\ UNCHANGED << config, now, cursor, runs, first_start, committed, overlapped >>

\* lines 131-138: parse_entry, sentinel.send (which flushes to the sink when
\* the queue has reached queue_size), the running maximum, is_empty().
\* The assignment to last_ts at line 134 feeds the running maximum only: the
\* filter was formatted from last_ts at lines 60-104, before the loop.
Send(p) ==
    LET r == run[p]
        e == Results(r)[r.entry]
        s == sentinel_send(r.queue, e, queue_size)
        r1 == [r EXCEPT !.queue = s.queue,
                        !.sent = @ \cup {e},
                        !.flushed = @ \cup Range(s.out),
                        !.auto = IF s.out # << >> THEN @ + 1 ELSE @,
                        !.last_max_ts = NewMax(@, isoformat(log[e].ts))]
    IN
    /\ r.pc = "send"
    /\ run' = [run EXCEPT ![p] = IF is_empty(r1.queue) THEN [r1 EXCEPT !.pc = "commit"]
                                 ELSE NextEntry(r1)]
    /\ delivered' = delivered \cup Range(s.out)
    /\ UNCHANGED << config, now, cursor, runs, first_start, committed, overlapped >>

\* lines 117, 132: the flush inside sentinel.send raises; the queue keeps its
\* events and the exception leaves the with block
SendSinkRaises(p) ==
    LET r == run[p]
        e == Results(r)[r.entry]
    IN
    /\ r.pc = "send"
    /\ sentinel_send(r.queue, e, queue_size).out # << >>
    /\ run' = [run EXCEPT ![p] = [r EXCEPT !.queue = Append(@, e), !.sent = @ \cup {e},
                                           !.exc = TRUE, !.pc = "release"]]
    /\ UNCHANGED << config, now, cursor, delivered, runs, first_start, committed,
                    overlapped >>

\* lines 139-143: state_manager.post(last_max_ts), then the time check
Commit(p) ==
    LET r == run[p]
        long == check_if_script_runs_too_long(r.start_ts, now)
        r1 == [r EXCEPT !.commits = Append(@, r.last_max_ts),
                        !.too_long = @ \/ long]
    IN
    /\ r.pc = "commit"
    /\ cursor' = post(cursor, r.last_max_ts)
    /\ committed' = committed \cup {r.last_max_ts}
    /\ run' = [run EXCEPT ![p] = AfterCheckInPage(r1, long)]
    /\ UNCHANGED << config, now, delivered, runs, first_start, overlapped >>

\* variant of BatchEnd: the post at the end of a batch made whether or not
\* events are pending in the connector
BatchEndUnguarded(p) ==
    LET r == run[p]
        save == r.last_max_ts # None
        long == check_if_script_runs_too_long(r.start_ts, now)
        r1 == [r EXCEPT !.commits = IF save THEN Append(@, r.last_max_ts) ELSE @,
                        !.too_long = @ \/ long]
    IN
    /\ r.pc = "batchEnd"
    /\ cursor' = IF save THEN post(cursor, r.last_max_ts) ELSE cursor
    /\ committed' = IF save THEN committed \cup {r.last_max_ts} ELSE committed
    /\ run' = [run EXCEPT ![p] = AfterCheckBatch(r1, long)]
    /\ UNCHANGED << config, now, delivered, runs, first_start, overlapped >>

\* lines 152-158: the post at the end of a batch, then the time check
BatchEnd(p) ==
    LET r == run[p]
        save == is_empty(r.queue) /\ r.last_max_ts # None
        long == check_if_script_runs_too_long(r.start_ts, now)
        r1 == [r EXCEPT !.commits = IF save THEN Append(@, r.last_max_ts) ELSE @,
                        !.too_long = @ \/ long]
    IN
    /\ r.pc = "batchEnd"
    /\ cursor' = IF save THEN post(cursor, r.last_max_ts) ELSE cursor
    /\ committed' = IF save THEN committed \cup {r.last_max_ts} ELSE committed
    /\ run' = [run EXCEPT ![p] = AfterCheckBatch(r1, long)]
    /\ UNCHANGED << config, now, delivered, runs, first_start, overlapped >>

\* line 117: leaving the with block, normally or by an exception, calls
\* the connector's __exit__, which flushes the remainder
Release(p) ==
    LET r == run[p]
        s == sentinel_exit(r.queue)
    IN
    /\ r.pc = "release"
    /\ run' = [run EXCEPT ![p] =
                  [r EXCEPT !.queue = s.queue,
                            !.flushed = @ \cup Range(s.out),
                            !.final = IF s.out # << >> THEN @ + 1 ELSE @,
                            !.start_ts = 0, !.batch = 0, !.page_token = 0,
                            !.entry = 0,
                            !.pc = IF r.exc THEN "failed" ELSE "done"]]
    /\ delivered' = delivered \cup Range(s.out)
    /\ UNCHANGED << config, now, cursor, runs, first_start, committed, overlapped >>

\* line 117: the flush of __exit__ raises
ReleaseSinkRaises(p) ==
    LET r == run[p] IN
    /\ r.pc = "release"
    /\ sentinel_exit(r.queue).out # << >>
    /\ run' = [run EXCEPT ![p] = [r EXCEPT !.exc = TRUE, !.release_raised = TRUE,
                                           !.start_ts = 0, !.batch = 0,
                                           !.page_token = 0, !.entry = 0,
                                           !.pc = "failed"]]
    /\ UNCHANGED << config, now, cursor, delivered, runs, first_start, committed,
                    overlapped >>

\* the host kills the process: nothing of the invocation survives
Crash(p) ==
    /\ run[p].pc \in Active
    /\ run' = [run EXCEPT ![p] = [IdleRun EXCEPT !.pc = "crashed"]]
    /\ UNCHANGED << config, now, cursor, delivered, runs, first_start, committed,
                    overlapped >>

\* The wall clock advances.  It is read by get_last_ts and by
\* check_if_script_runs_too_long only, so it advances right before those:
\* past the time budget while an invocation is about to check it, past the
\* maximum search period between two invocations.
Advance(later) ==
    /\ \E n \in later : n > now /\ now' = n
    /\ UNCHANGED << config, cursor, delivered, runs, first_start, committed,
                    overlapped, run >>

Tick ==
    \/ /\ run[1].pc \in {"commit", "batchEnd"}
       /\ Advance({now + BudgetJump} \cap ClockValues)
    \/ /\ run[1].pc \in Ended
       /\ runs \in 1..(MaxRuns - 1)
       /\ Advance({NowInit + StaleJump})

Step(p) ==
    \/ Fetch(p) \/ SourceRaises(p) \/ Send(p) \/ SendSinkRaises(p)
    \/ Commit(p) \/ BatchEnd(p) \/ Release(p) \/ ReleaseSinkRaises(p)
    \/ Crash(p)

\* one invocation at a time: the timer fires when no invocation is active
Next ==
    \/ StartRun(1)
    \/ Step(1)
    \/ Tick

Spec == Init /\ [][Next]_vars

\* The timer fires again while the previous invocation is still running:
\* two invocations of main() interleave step by step.
NextOverlap ==
    \E p \in Procs : StartRun(p) \/ Step(p)

SpecOverlap == Init /\ [][NextOverlap]_vars

\* ------------------------------------------ the start of a run, by itself
\* get_last_ts and the split of the resources into batches are functions of
\* what the run finds when it starts: the stored cursor, the wall clock and
\* the resource names.  Here these are drawn from ranges wider than a
\* deployment that starts with an empty store produces: a wall clock with and
\* without a fraction of a second, a cursor left by an earlier deployment
\* whose age is ten minutes or around the maximum search period, 0 to
\* MaxResources resource names.  The log holds no entry, so that the run walks
\* through its batches: one query and one batch end each.
StartClocks == {(MAX_PERIOD_MINUTES + 10) * Minute + f : f \in {0, 1}}

StoredCursors(n) ==
    {None, isoformat(n - 10 * Minute)}
        \cup {isoformat(n - MAX_PERIOD_MINUTES * Minute - d) : d \in (0 - MaxSkew)..MaxSkew}

InitStart ==
    /\ \E n \in 0..MaxResources : resources = [i \in 1..n |-> i]
    /\ log = << >>
    /\ queue_size = 1
    /\ page_size = 1
    /\ now \in StartClocks
    /\ cursor \in StoredCursors(now)
    /\ delivered = {}
    /\ runs = 0
    /\ first_start = None
    /\ committed = {}
    /\ overlapped = FALSE
    /\ run = [p \in Procs |-> IdleRun]

NextStart ==
    \/ StartRun(1)
    \/ Fetch(1)
    \/ BatchEnd(1)
    \/ Release(1)

SpecStart == InitStart /\ [][NextStart]_vars

\* ------------------------------------------------ one run, running to its end
\* main() is sequential code: unless the host kills the process, the
\* statement it is at executes, and every call it makes (list_entries, send,
\* post, the connector's exit) returns or raises.  So the steps of the run are
\* taken under weak fairness; the exceptions, the kill and the clock are not.
RunStep == Fetch(1) \/ Send(1) \/ Commit(1) \/ BatchEnd(1) \/ Release(1)

FirstRun == runs = 0 /\ StartRun(1)

NextLive ==
    \/ FirstRun
    \/ Step(1)
    \/ Tick

SpecLive == Init /\ [][NextLive]_vars /\ WF_vars(RunStep)

\* ================================================================ properties
\* entry i of the log is an entry of a monitored resource with a timestamp
\* from the first run's window start up to t
InScope(i, t) ==
    /\ log[i].res \in Range(resources)
    /\ first_start # None
    /\ log[i].ts >= parse_date(first_start)
    /\ log[i].ts <= t

\* every entry in scope up to the persisted cursor has reached the sink
Covered ==
    \A i \in 1..Len(log) : InScope(i, parse_date(cursor)) => i \in delivered

\* the clock has not passed the maximum search period, so that no window
\* start has been clamped
NeverStale == now < NowInit + StaleJump

\* the largest timestamp among the entries of a non-empty set
MaxTs(S) == CHOOSE t \in {log[e].ts : e \in S} : \A e \in S : log[e].ts <= t

\* the entries delivered by run r that the persisted cursor does not cover
Uncovered(r) ==
    {e \in r.flushed : cursor = None \/ log[e].ts > parse_date(cursor)}

\* no two entries of the log carry the same timestamp
DistinctTimes ==
    \A i, j \in 1..Len(log) : i # j => log[i].ts # log[j].ts

\* C1: over two or more resource batches, between two runs, whenever the
\* cursor holds T every entry of a monitored resource with first window
\* start <= timestamp <= T has been delivered to the sink (no later run skips
\* it).  Stated for logs without equal timestamps and while no window start
\* is clamped.
C1_NoEventSkipped ==
    (/\ NumBatches >= 2
     /\ DistinctTimes
     /\ NeverStale
     /\ run[1].pc \in Ended
     /\ cursor # None) => Covered

\* C2: with one run at a time, no commit writes a timestamp smaller than the
\* stored one, within a run and across runs.
C2_CursorMonotone ==
    [][cursor # None => cursor' # None /\ parse_date(cursor') >= parse_date(cursor)]_vars

C2_Witness ==
    /\ runs = 2
    /\ run[1].read # None
    /\ Len(run[1].commits) >= 2
    /\ parse_date(cursor) > parse_date(run[1].read)

\* C3: the run after a run that crashed after a commit starts its window
\* strictly after the committed value and sends no entry with a timestamp at
\* or below it.
C3_RestartAfterCommit ==
    LET r == run[1] IN
    (r.after = "crashed" /\ r.read # None) =>
        /\ parse_date(r.filt) > parse_date(r.read)
        /\ \A e \in r.sent : log[e].ts > parse_date(r.read)

C3_Witness ==
    /\ run[1].after = "crashed"
    /\ run[1].read # None
    /\ run[1].sent # {}

\* C4: a run over one batch whose query returns queue_size + k entries,
\* 0 < k < queue_size, makes one automatic flush, one final flush and two
\* commits, each of the maximum timestamp seen up to then.
C4_TwoCommits ==
    LET r == run[1]
        m == Matching(log, resource_batches(resources)[1], r.filt)
    IN  (/\ r.pc = "done"
         /\ ~r.too_long
         /\ NumBatches = 1
         /\ Len(m) > queue_size
         /\ Len(m) < 2 * queue_size) =>
            /\ r.auto = 1
            /\ r.final = 1
            /\ Len(r.commits) = 2
            /\ r.commits[1] = isoformat(log[m[queue_size]].ts)
            /\ r.commits[2] = isoformat(log[m[Len(m)]].ts)

\* C5: a run that ended through the time-budget exit has no pending event
\* and the cursor equals the maximum timestamp of the entries it delivered.
C5_EarlyExitCommitted ==
    LET r == run[1] IN
    (r.pc = "done" /\ r.too_long) =>
        /\ r.queue = << >>
        /\ r.flushed # {} => (cursor # None /\ parse_date(cursor) = MaxTs(r.flushed))

\* C6: once a time check has returned true the run sends no further entry,
\* fetches no further page and starts no further batch.
C6_CheckExits ==
    [][\A p \in Procs :
          (run[p].too_long /\ run'[p].too_long) =>
              /\ run'[p].sent = run[p].sent
              /\ run'[p].fetches = run[p].fetches
              /\ run'[p].batch <= run[p].batch]_vars

C8_AbortKeepsProgress ==
    [][LET r == run[1]
           n == run'[1]
       IN  /\ n.exc => cursor' = IF n.commits = << >> THEN n.read
                                 ELSE n.commits[Len(n.commits)]
           /\ (r.exc /\ n.exc) =>
                 /\ cursor' = cursor
                 /\ n.fetches = r.fetches
                 /\ n.sent = r.sent
                 /\ n.commits = r.commits]_vars

C8_Witness ==
    /\ run[1].pc = "failed"
    /\ run[1].commits # << >>
    /\ cursor = run[1].commits[Len(run[1].commits)]

\* C9: at every point of a run the entries it has delivered with a timestamp
\* above the persisted cursor number at most queue_size.
C9_UncoveredAtMostOneFlush ==
    Cardinality(Uncovered(run[1])) <= queue_size

C9_Witness ==
    /\ run[1].pc = "commit"
    /\ run[1].commits # << >>
    /\ Cardinality(Uncovered(run[1])) = queue_size

\* C10: after two runs have overlapped and both have ended, every entry at or
\* below the persisted cursor has been delivered and the cursor is a value
\* one of the runs committed.  Stated for logs without equal timestamps.
C10_OverlapOnlyDuplicates ==
    (/\ overlapped
     /\ DistinctTimes
     /\ cursor # None
     /\ \A p \in Procs : run[p].pc \in Ended) =>
        Covered /\ cursor \in committed

\* ------------------------------------------------- the window start policy
\* the age of the stored cursor the run read, in ticks
CursorAge(r) == now - parse_date(r.read)

\* C11: a run that read a stored cursor C at wall clock N with
\* N - C <= the maximum search period queries from exactly C + 1 tick.
C11_FreshCursorPlusTick ==
    LET r == run[1] IN
    (/\ r.filt # None
     /\ r.read # None
     /\ CursorAge(r) <= MAX_PERIOD_MINUTES * Minute) =>
        r.filt = isoformat(parse_date(r.read) + 1)

\* a cursor ten minutes old, and a cursor exactly as old as the search period
C11_Witness ==
    LET r == run[1] IN
    /\ r.filt # None
    /\ r.read # None
    /\ CursorAge(r) \in {10 * Minute, MAX_PERIOD_MINUTES * Minute}
    /\ parse_date(r.filt) = parse_date(r.read) + 1

\* C12: a run that read a stored cursor C at wall clock N with
\* N - C > the maximum search period, compared tick by tick, queries from
\* exactly N - the maximum search period.
C12_StaleCursorClamped ==
    LET r == run[1] IN
    (/\ r.filt # None
     /\ r.read # None
     /\ CursorAge(r) > MAX_PERIOD_MINUTES * Minute) =>
        r.filt = isoformat(now - MAX_PERIOD_MINUTES * Minute)

\* C13: a run that found the store empty at wall clock N queries from exactly
\* N - the execution interval, no tick added.
C13_NoCursorNoTick ==
    LET r == run[1] IN
    (r.filt # None /\ r.read = None) =>
        r.filt = isoformat(now - SCRIPT_EXECUTION_INTERVAL_MINUTES * Minute)

\* ------------------------------------------------------- the resource batches
RECURSIVE Concat(_)
Concat(ss) == IF ss = << >> THEN << >> ELSE Head(ss) \o Concat(Tail(ss))

\* the least c with c * d >= n
CeilDiv(n, d) == CHOOSE c \in 0..n : c * d >= n /\ (c = 0 \/ (c - 1) * d < n)

\* C14: n resource names are split into ceil(n / 10) batches, every batch but
\* the last of exactly 10 names and the last of the remainder, that
\* concatenate to the original list; the k-th query of a run over an empty
\* log is the query of batch k, and the run ends after one query per batch.
C14_BatchesOfTenInOrder ==
    LET b == resource_batches(resources)
        n == Len(resources)
        r == run[1]
    IN  /\ Len(b) = CeilDiv(n, batch_size)
        /\ \A k \in 1..(Len(b) - 1) : Len(b[k]) = batch_size
        /\ Len(b) > 0 => Len(b[Len(b)]) = n - batch_size * (Len(b) - 1)
        /\ Concat(b) = resources
        /\ r.pc = "fetch" => r.batch \in 1..Len(b) /\ r.fetches = r.batch - 1
        /\ r.pc = "batchEnd" => r.batch \in 1..Len(b) /\ r.fetches = r.batch
        /\ r.pc \in {"release", "done"} => r.fetches = Len(b)

\* 25 names: batches of 10, 10 and 5, all three queried
C14_Witness ==
    LET b == resource_batches(resources) IN
    /\ Len(resources) = 25
    /\ [k \in 1..Len(b) |-> Len(b[k])] = << 10, 10, 5 >>
    /\ run[1].pc = "done"
    /\ run[1].fetches = 3

\* ------------------------------------------------------ commits and flushes
\* the step appends a value to the commits of the run
Commits(r, n) == Len(n.commits) > Len(r.commits)

\* C15: every commit is made while no event is pending in the connector;
\* a flush made by send() is followed by a commit as the next step of the run,
\* before another entry is sent (unless the process is killed there); the
\* persisted cursor never exceeds the largest timestamp delivered to the sink.
C15_CommitAtFlushBoundary ==
    [][LET r == run[1]
           n == run'[1]
       IN  /\ Commits(r, n) => r.queue = << >> /\ n.queue = << >>
           /\ n.auto > r.auto => n.pc = "commit"
           /\ (r.pc = "commit" /\ n # r) =>
                 \/ Commits(r, n) /\ n.sent = r.sent
                 \/ n.pc = "crashed"
           /\ cursor' # None =>
                 \E e \in delivered' : parse_date(cursor') <= log[e].ts]_vars

\* a flush by send() has been committed and the next entry is about to be sent
C15_Witness ==
    LET r == run[1] IN
    /\ r.pc = "send"
    /\ r.auto = 1
    /\ r.flushed # {}
    /\ r.commits = << isoformat(MaxTs(r.flushed)) >>
    /\ cursor = r.commits[1]

\* ----------------------------------------------------- the running maximum
\* the entries of resource batch b among the set S
OfBatch(S, b) == {e \in S : log[e].res \in Range(resource_batches(resources)[b])}

\* C16 as stated: the running maximum starts absent at every resource batch,
\* every committed value is the maximum timestamp among the entries of the
\* current batch sent so far, and a batch that yielded no entry makes no
\* commit.
C16_MaxPerBatch ==
    [][LET r == run[1]
           n == run'[1]
       IN  /\ n.batch = r.batch + 1 => n.last_max_ts = None
           /\ Commits(r, n) =>
                 /\ OfBatch(n.sent, r.batch) # {}
                 /\ n.commits[Len(n.commits)] = isoformat(MaxTs(OfBatch(n.sent, r.batch)))]_vars

\* C16 amended: the running maximum is per run.  It is absent until the run
\* sends an entry and is then the maximum timestamp among the entries the run
\* has sent so far, in whatever batch; every committed value is that maximum;
\* the end of a batch commits it exactly when no event is pending and the
\* run has sent an entry, in this batch or an earlier one.  (Stated while no
\* exception is propagating: a send() that raises has not returned.)
C16_MaxPerRun ==
    [][LET r == run[1]
           n == run'[1]
           max == IF n.sent = {} THEN None ELSE isoformat(MaxTs(n.sent))
       IN  /\ ~n.exc => n.last_max_ts = max
           /\ Commits(r, n) =>
                 /\ n.sent # {}
                 /\ n.commits[Len(n.commits)] = max
           /\ (r.pc = "batchEnd" /\ n # r /\ n.pc # "crashed") =>
                 (Commits(r, n) <=> (r.queue = << >> /\ r.sent # {}))]_vars

\* the second batch of a run yielded no entry and its end committed the
\* maximum of the first batch again
C16_Witness ==
    LET r == run[1] IN
    /\ r.pc = "release"
    /\ r.batch = 2
    /\ ~r.too_long
    /\ r.sent # {}
    /\ OfBatch(r.sent, 2) = {}
    /\ Len(r.commits) >= 2
    /\ r.commits[Len(r.commits)] = r.commits[Len(r.commits) - 1]

\* ------------------------------------------------------- the window start
\* the entries of the monitored resources at or after the window start
InWindow(r) ==
    {i \in 1..Len(log) : log[i].res \in Range(resources) /\ log[i].ts >= parse_date(r.filt)}

\* C17: a run reads the store once, when it starts and before any query, and
\* computes the window start from that value; no later step of the run
\* changes the value read or the window start, whatever is sent or committed;
\* a run that went through all batches without exception or time-budget exit
\* has sent every entry of the monitored resources at or after that window
\* start, of whatever batch.
C17_WindowStartFixed ==
    [][LET r == run[1]
           n == run'[1]
       IN  /\ (r.pc \in Ended /\ n.pc \in Active) =>
                 /\ n.read = get(cursor)
                 /\ n.filt = get_last_ts(n.read, now)
                 /\ n.fetches = 0
           /\ (r.pc \in Active /\ n.pc # "crashed") =>
                 /\ n.read = r.read
                 /\ n.filt = r.filt
           /\ n.pc \in Active => \A e \in n.sent : log[e].ts >= parse_date(n.filt)
           /\ (n.pc = "release" /\ ~n.exc /\ ~n.too_long) => n.sent = InWindow(n)]_vars

\* the second batch has sent an entry older than the value the first batch
\* committed
C17_Witness ==
    LET r == run[1] IN
    /\ r.batch = 2
    /\ r.commits # << >>
    /\ cursor = r.commits[Len(r.commits)]
    /\ \E e \in OfBatch(r.sent, 2) : log[e].ts < parse_date(cursor)

\* ------------------------------------------------------ the order of sending
\* C18: within every resource batch the entries a run has sent are a prefix
\* of the entries the batch query returns, in the order it returns them: an
\* entry is sent only when every entry before it has been sent.
C18_SentIsPrefix ==
    LET r == run[1] IN
    r.filt # None =>
        \A b \in 1..NumBatches :
            LET m == Matching(log, resource_batches(resources)[b], r.filt) IN
            \A j \in 1..Len(m) : \A i \in 1..(j - 1) :
                m[j] \in r.sent => m[i] \in r.sent

\* ------------------------------------------------------------- termination
\* A bound on the steps the run r still takes: three per entry the query of
\* its batch has yet to return (fetch, send, commit), the end of the batch,
\* as much for every batch to come, and the release.
BatchWork == 3 * Len(log) + 4

InBatchWork(r) ==
    LET l == Len(Matching(log, resource_batches(resources)[r.batch], r.filt))
        at == r.page_token + r.entry - 1
    IN  CASE r.pc = "fetch" -> 3 * (l - r.page_token) + 3
          [] r.pc = "send" -> 3 * (l - at) + 2
          [] r.pc = "commit" -> 3 * (l - at) + 1
          [] r.pc = "batchEnd" -> 2

Work(r) ==
    IF r.pc \in Ended THEN 0
    ELSE IF r.pc = "release" THEN 1
    ELSE (NumBatches - r.batch) * BatchWork + InBatchWork(r)

\* a step of the run itself (not the clock, not the host) is possible
CanStep == ENABLED RunStep

\* C19: a run that has started ends (done, failed or killed).  It can always
\* take a step, and every step it takes lowers the bound Work, which is 0
\* only when the run has ended: the run ends within Work steps.  Once the
\* elapsed time exceeds the budget no step of the run starts another resource
\* batch.
C19_RunEnds ==
    /\ (run[1].pc \in Active) ~> (run[1].pc \in Ended)
    /\ [][LET r == run[1]
           n == run'[1]
          IN  /\ r.pc \in Active => CanStep /\ Work(r) > 0
              /\ (r.pc \in Active /\ n # r) => Work(n) < Work(r)
              /\ (r.pc \in Active /\ check_if_script_runs_too_long(r.start_ts, now)) =>
                    n.batch <= r.batch]_vars

\* the budget was found exceeded during the first of two batches and the run
\* is leaving at the end of that batch
C19_Witness ==
    LET r == run[1] IN
    /\ r.pc = "release"
    /\ ~r.exc
    /\ r.too_long
    /\ NumBatches = 2
    /\ r.batch = 1
    /\ Len(r.commits) >= 2

====
